---- MODULE Spec2Model ----
EXTENDS Integers, Sequences, FiniteSets, TLC

\* Pixel values are measured in units of 1/255 of a pixel level, so that
\* epsilon = 2/255.0 is the integer Eps and a pixel level p is p * Scale.
Scale == 255
Eps == 2
PixelMax == 255
NumOfSteps == 100
ReportEvery == 10

\* Largest magnitude (in units) of one raw Adam update on an element of delta.
MaxUpd == 3

\* Python None where an integer is expected (class indices are non-negative)
None == -1

IsNone(x) == x = None

\* ---------------------------------------------------------------------
\* Label Index Resolver (get_target_class_index)
\* Strings are sequences of one-character strings.

LowerChar(c) == IF c = "A" THEN "a" ELSE IF c = "B" THEN "b" ELSE c

LowerMut(s) == s

Lower(s) == [i \in 1..Len(s) |-> LowerChar(s[i])]

ReplaceUnderscore(s) == [i \in 1..Len(s) |-> IF s[i] = "_" THEN " " ELSE s[i]]

\* imagenet_index.json: normalised class name -> class index
MappingDict == [k \in {<<"a", " ", "b">>, <<"b">>} |->
                  IF k = <<"b">> THEN 0 ELSE 805]

DictGet(d, k, default) == IF k \in DOMAIN d THEN d[k] ELSE default

GetTargetClassIndexMut(label) ==
  LET l == ReplaceUnderscore(Lower(label))
  IN  DictGet(MappingDict, l, 0)

GetTargetClassIndex(label) ==
  LET l == ReplaceUnderscore(Lower(label))
  IN  DictGet(MappingDict, l, None)

\* ---------------------------------------------------------------------
\* Numeric helpers

Min(a, b) == IF a < b THEN a ELSE b
Max(a, b) == IF a > b THEN a ELSE b
Abs(x) == IF x < 0 THEN -x ELSE x

\* tf.clip_by_value / np.clip
ClipByValue(x, lo, hi) == Min(hi, Max(lo, x))

ClipEps(x, e) == ClipByValue(x, -e, e)

\* float -> int truncation toward zero, for a value in units
TruncUnits(x) == IF x >= 0 THEN x \div Scale ELSE -((-x) \div Scale)

\* ndarray.astype("uint8") of a float: the truncated value when it fits in
\* a uint8, otherwise undefined (any byte the build may produce).
AsTypeUint8(x) == IF TruncUnits(x) \in 0..255 THEN {TruncUnits(x)} ELSE 0..255

\* int(x): succeeds on integers, raises TypeError on None
IsIntConvertibleMut(x) == TRUE

IsIntConvertible(x) == ~IsNone(x)

\* model(adversary, training=...) inside the loop
TrainingMut == TRUE

Training == FALSE

\* A forward pass updates state (BatchNorm statistics) only in training mode.
ModelCall(w, training) == IF training THEN w + 1 ELSE w

\* if step % 10 == 0: print(...)
ShouldReportMut(s) == s % ReportEvery = 1

ShouldReport(s) == s % ReportEvery = 0

\* for step in range(0, steps)
LoopContinuesMut(s, n) == s < n - 1

LoopContinues(s, n) == s < n

\* Inputs the run may be given
TargetLabels == {<<"A", "_", "B">>, <<"B">>, <<"z">>}
OrigLabels == {<<"b">>, <<"q">>}
BaseVals == {0, 255}

VARIABLES pc, targetIdx, origIdx, baseImage, weights, delta, raw, step,
          phase, optIter, reports, exitCode, pixel, cls1In, cls2In, events,
          lab1, lab2

vars == <<pc, targetIdx, origIdx, baseImage, weights, delta, raw, step,
          phase, optIter, reports, exitCode, pixel, cls1In, cls2In, events,
          lab1, lab2>>

\* baseImage + delta, in units
AdvInput == baseImage * Scale + delta

\* np.clip(adverImage, 0, 255)
NpClipPixelsMut(x) == x

NpClipPixels(x) == ClipByValue(x, 0, PixelMax * Scale)

\* baseImage + deltaUpdated, the tensor handed to both re-classifications
ReclassifyInputMut == pixel * Scale

ReclassifyInput == baseImage * Scale + delta

Init ==
  /\ pc = "start"
  /\ targetIdx = None
  /\ origIdx = None
  /\ baseImage = 0
  /\ weights = 0
  /\ delta = 0
  /\ raw = 0
  /\ step = 0
  /\ phase = "loss"
  /\ optIter = 0
  /\ reports = 0
  /\ exitCode = None
  /\ pixel = 0
  /\ cls1In = 0
  /\ cls2In = 0
  /\ events = <<>>
  /\ lab1 = <<>>
  /\ lab2 = <<>>

\* lines 81-88
ResolveTarget ==
  /\ pc = "start"
  /\ \E l \in TargetLabels :
       LET t == GetTargetClassIndex(l) IN
       /\ lab1' = l
       /\ IF IsNone(t)
            THEN /\ pc' = "exited"
                 /\ exitCode' = 0
                 /\ events' = Append(events, "printError")
                 /\ UNCHANGED targetIdx
            ELSE /\ pc' = "readImage"
                 /\ targetIdx' = t
                 /\ UNCHANGED <<exitCode, events>>
  /\ UNCHANGED <<lab2, origIdx, baseImage, weights, delta, raw, step, phase,
                 optIter, reports, pixel, cls1In, cls2In>>

\* lines 91-92
ReadImage ==
  /\ pc = "readImage"
  /\ \E b \in BaseVals : baseImage' = b
  /\ events' = Append(events, "readImage")
  /\ pc' = "loadModel"
  /\ UNCHANGED <<lab1, lab2, targetIdx, origIdx, weights, delta, raw, step, phase,
                 optIter, reports, exitCode, pixel, cls1In, cls2In>>

\* line 95
LoadModel ==
  /\ pc = "loadModel"
  /\ weights' = 1
  /\ events' = Append(events, "loadModel")
  /\ pc' = "classify0"
  /\ UNCHANGED <<lab1, lab2, targetIdx, origIdx, baseImage, delta, raw, step, phase,
                 optIter, reports, exitCode, pixel, cls1In, cls2In>>

\* lines 98-120: classify, resolve original label, create optimizer and the
\* zero perturbation, enter generate_target_adversaries
ClassifyAndStart ==
  /\ pc = "classify0"
  /\ \E l \in OrigLabels :
       /\ lab2' = l
       /\ origIdx' = GetTargetClassIndex(l)
  /\ events' = Append(events, "classify0")
  /\ delta' = 0
  /\ step' = 0
  /\ phase' = "loss"
  /\ optIter' = 0
  /\ pc' = "loop"
  /\ UNCHANGED <<lab1, targetIdx, baseImage, weights, raw, reports, exitCode,
                 pixel, cls1In, cls2In>>

\* lines 47-62: forward pass, losses, report every 10th step
LossStep ==
  /\ pc = "loop"
  /\ phase = "loss"
  /\ LoopContinues(step, NumOfSteps)
  /\ weights' = ModelCall(weights, Training)
  /\ IF IsIntConvertible(origIdx)
       THEN /\ phase' = "update"
            /\ reports' = IF ShouldReport(step) THEN reports + 1 ELSE reports
            /\ UNCHANGED <<pc, events>>
       ELSE /\ pc' = "crashed"
            /\ events' = Append(events, "TypeError")
            /\ UNCHANGED <<phase, reports>>
  /\ UNCHANGED <<lab1, lab2, targetIdx, origIdx, baseImage, delta, raw, step, optIter,
                 exitCode, pixel, cls1In, cls2In>>

\* lines 65-69: optimizer update of delta, then delta.assign_add(clip_eps(delta))
UpdateStep ==
  /\ pc = "loop"
  /\ phase = "update"
  /\ \E g \in -MaxUpd..MaxUpd :
       LET u == delta + g IN
       /\ raw' = u
       /\ delta' = u + ClipEps(u, Eps)
  /\ optIter' = optIter + 1
  /\ step' = step + 1
  /\ phase' = "loss"
  /\ UNCHANGED <<lab1, lab2, pc, targetIdx, origIdx, baseImage, weights, reports,
                 exitCode, pixel, cls1In, cls2In, events>>

\* line 45 loop exit, line 71 return
LoopExit ==
  /\ pc = "loop"
  /\ phase = "loss"
  /\ ~LoopContinues(step, NumOfSteps)
  /\ pc' = "reconstruct"
  /\ UNCHANGED <<lab1, lab2, targetIdx, origIdx, baseImage, weights, delta, raw, step,
                 phase, optIter, reports, exitCode, pixel, cls1In, cls2In,
                 events>>

\* lines 123-125
Reconstruct ==
  /\ pc = "reconstruct"
  /\ \E v \in AsTypeUint8(NpClipPixels(AdvInput)) :
       pixel' = v
  /\ pc' = "write"
  /\ UNCHANGED <<lab1, lab2, targetIdx, origIdx, baseImage, weights, delta, raw, step,
                 phase, optIter, reports, exitCode, cls1In, cls2In, events>>

\* line 126
WriteOutput ==
  /\ pc = "write"
  /\ events' = Append(events, "write")
  /\ pc' = "classify1"
  /\ UNCHANGED <<lab1, lab2, targetIdx, origIdx, baseImage, weights, delta, raw, step,
                 phase, optIter, reports, exitCode, pixel, cls1In, cls2In>>

\* lines 129-137
Classify1 ==
  /\ pc = "classify1"
  /\ cls1In' = ReclassifyInput
  /\ events' = Append(events, "classify1")
  /\ pc' = "show"
  /\ UNCHANGED <<lab1, lab2, targetIdx, origIdx, baseImage, weights, delta, raw, step,
                 phase, optIter, reports, exitCode, pixel, cls2In>>

\* lines 139-140
Show ==
  /\ pc = "show"
  /\ events' = Append(events, "show")
  /\ pc' = "classify2"
  /\ UNCHANGED <<lab1, lab2, targetIdx, origIdx, baseImage, weights, delta, raw, step,
                 phase, optIter, reports, exitCode, pixel, cls1In, cls2In>>

\* lines 143-148
Classify2 ==
  /\ pc = "classify2"
  /\ cls2In' = ReclassifyInput
  /\ events' = Append(events, "classify2")
  /\ pc' = "done"
  /\ UNCHANGED <<lab1, lab2, targetIdx, origIdx, baseImage, weights, delta, raw, step,
                 phase, optIter, reports, exitCode, pixel, cls1In>>

Next ==
  \/ ResolveTarget
  \/ ReadImage
  \/ LoadModel
  \/ ClassifyAndStart
  \/ LossStep
  \/ UpdateStep
  \/ LoopExit
  \/ Reconstruct
  \/ WriteOutput
  \/ Classify1
  \/ Show
  \/ Classify2

Spec == Init /\ [][Next]_vars

\* ---------------------------------------------------------------------
\* Resolution of two label strings by get_target_class_index

MaxLen == 3
Chars == {"A", "a", "b", "_", " "}
LabelStrings == UNION {[1..n -> Chars] : n \in 0..MaxLen}

LabelInit ==
  /\ pc = "labels"
  /\ lab1 \in LabelStrings
  /\ lab2 \in LabelStrings
  /\ targetIdx = None
  /\ origIdx = None
  /\ baseImage = 0
  /\ weights = 0
  /\ delta = 0
  /\ raw = 0
  /\ step = 0
  /\ phase = "loss"
  /\ optIter = 0
  /\ reports = 0
  /\ exitCode = None
  /\ pixel = 0
  /\ cls1In = 0
  /\ cls2In = 0
  /\ events = <<>>

ResolvePair ==
  /\ pc = "labels"
  /\ targetIdx' = GetTargetClassIndex(lab1)
  /\ origIdx' = GetTargetClassIndex(lab2)
  /\ pc' = "labelsDone"
  /\ UNCHANGED <<lab1, lab2, baseImage, weights, delta, raw, step, phase,
                 optIter, reports, exitCode, pixel, cls1In, cls2In, events>>

LabelNext == ResolvePair

LabelSpec == LabelInit /\ [][LabelNext]_vars

\* ---------------------------------------------------------------------
\* Properties

PostLoop == {"reconstruct", "write", "classify1", "show", "classify2", "done"}

\* class name as the spec normalises it: lowercase, '_' replaced by ' '
NormSpec(s) == [i \in 1..Len(s) |->
                  CASE s[i] = "A" -> "a"
                    [] s[i] = "B" -> "b"
                    [] s[i] = "_" -> " "
                    [] OTHER -> s[i]]

Written == \E i \in 1..Len(events) : events[i] = "write"

\* C1: after every optimisation step every element of delta lies in
\* [-epsilon, epsilon].
DeltaBounded == Abs(delta) <= Eps

C1Witness == optIter > 0 /\ Abs(raw) > Eps

\* C2: after a step, delta equals clip(u, -epsilon, epsilon) where u is the
\* value right after the optimizer update.
DeltaIsClippedUpdate == optIter > 0 => delta = Min(Eps, Max(-Eps, raw))

C2Witness == optIter > 0 /\ Abs(raw) <= Eps /\ raw # 0

\* C3: an unknown target label makes the driver print an error and exit with
\* code 0 before reading the image, loading the model or running any step.
TargetNotFoundExits ==
  (pc \notin {"start", "labels", "labelsDone"}
     /\ NormSpec(lab1) \notin DOMAIN MappingDict) =>
     /\ pc = "exited"
     /\ exitCode = 0
     /\ events = <<"printError">>
     /\ optIter = 0

C3Witness == pc = "exited" /\ lab1 = <<"z">>

\* C4: two labels equal after lowercasing and replacing '_' by ' ' resolve
\* to the same result.
ResolutionInsensitive ==
  (pc = "labelsDone" /\ NormSpec(lab1) = NormSpec(lab2)) => targetIdx = origIdx

C4Witness ==
  /\ pc = "labelsDone"
  /\ lab1 # lab2
  /\ NormSpec(lab1) = NormSpec(lab2)
  /\ ~IsNone(targetIdx)

\* C5 (as stated): generate_target_adversaries always ends after exactly
\* `steps` iterations with one update per iteration.
FixedBudgetAlways ==
  (pc \in PostLoop \cup {"crashed"}) => (step = NumOfSteps /\ optIter = NumOfSteps)

\* C5 (amended): one optimizer update per iteration; a normal return happens
\* after exactly `steps` iterations; with an unresolved original index the
\* loop raises in its first iteration before any update.
FixedBudget ==
  /\ optIter = step
  /\ pc \in PostLoop => step = NumOfSteps
  /\ pc = "crashed" => (step = 0 /\ IsNone(origIdx))

C5Witness == pc = "reconstruct"

\* C6: during the optimisation loop neither the base image nor the model's
\* weights change.
LoopFrame == [][pc = "loop" => UNCHANGED <<baseImage, weights>>]_vars

C6Witness == pc = "loop" /\ optIter > 1

\* C7: every pixel written to output.png is an integer in [0, 255] obtained
\* by clipping base + delta to [0, 255] before the integer conversion.
PixelClipped ==
  (pc \in PostLoop \ {"reconstruct"}) =>
     /\ pixel \in 0..255
     /\ pixel = Min(255 * Scale, Max(0, baseImage * Scale + delta)) \div Scale

C7Witness ==
  /\ pc = "write"
  /\ \/ baseImage * Scale + delta <= -Scale
     \/ baseImage * Scale + delta >= 256 * Scale

\* C8: the loss is reported at every step whose index is a multiple of 10 and
\* at no other, after the loss is computed and before the update: ten
\* reports in a 100-step run.
LossReports ==
  /\ (pc = "loop" /\ phase = "loss") => reports = (step + 9) \div 10
  /\ (pc = "loop" /\ phase = "update") => reports = step \div 10 + 1
  /\ pc \in PostLoop => reports = 10

C8Witness == pc = "reconstruct" /\ reports = 10

\* C9 (as stated): after persisting output.png both classifiers are re-run,
\* in order, on the reconstructed (clipped, uint8) adversarial image.
ReclassifySavedImage ==
  pc = "done" =>
     /\ SubSeq(events, Len(events) - 3, Len(events)) =
          <<"write", "classify1", "show", "classify2">>
     /\ cls1In = pixel * Scale
     /\ cls2In = pixel * Scale

\* C9 (amended): after persisting output.png the first and then the second
\* classifier are re-run, both on baseImage + delta (unclipped, not
\* quantised), not on the saved image.
ReclassifyAfterWrite ==
  pc = "done" =>
     /\ SubSeq(events, Len(events) - 3, Len(events)) =
          <<"write", "classify1", "show", "classify2">>
     /\ cls1In = baseImage * Scale + delta
     /\ cls2In = baseImage * Scale + delta

C9Witness == pc = "done" /\ cls1In # pixel * Scale

\* C10: with an unresolved original label the run enters the loop, raises in
\* the first step's int(original_class_index) before any update, and never
\* writes output.png.
OrigUnresolvedCrashes ==
  /\ (pc \notin {"start", "exited", "readImage", "loadModel", "classify0"}
        /\ NormSpec(lab2) \notin DOMAIN MappingDict) =>
       /\ pc \in {"loop", "crashed"}
       /\ optIter = 0
       /\ delta = 0
       /\ ~Written
  /\ pc = "crashed" => (NormSpec(lab2) \notin DOMAIN MappingDict /\ step = 0)

C10Witness == pc = "crashed"

====
